---- MODULE Spec2Model ----
(***************************************************************************)
(* Model of the analysis server of github-org-analyzer:                    *)
(*   src/app/api/analyze/route.ts  the batch scheduler and the event       *)
(*                                 stream (POST, sendEvent,                *)
(*                                 processCompanies)                       *)
(*   src/lib/github.ts             the per-company analysis                *)
(*                                 (extractOrgName, listOrgRepos,          *)
(*                                 getRepoCommitCount, getTopContributor,  *)
(*                                 analyzeCompany)                         *)
(*                                                                         *)
(* Strings that the code takes apart (URLs) are sequences of one-character *)
(* strings; optional fields (error?, result?) are sequences of length 0    *)
(* or 1.                                                                   *)
(*                                                                         *)
(* Scheduling follows the JavaScript event loop: the continuation of a     *)
(* settled promise runs before the next I/O event is handled, so the       *)
(* environment's actions (the consumer reading or disconnecting, a remote  *)
(* call returning) are enabled only when no continuation is runnable.      *)
(***************************************************************************)
EXTENDS Integers, Sequences, FiniteSets, TLC

\* ------------------------------------------------------------------------
\* Program constants
\* ------------------------------------------------------------------------
BATCH_SIZE == 5
MAX_COMMITS == 500
PER_PAGE == 100
MAX_PAGES == 5
NOT_FOUND == 404

\* ------------------------------------------------------------------------
\* Bounds of the model
\* ------------------------------------------------------------------------
\* Largest batch submitted (two windows need more than BATCH_SIZE).
MaxCompanies == 6
\* Largest number of companies of a batch whose URL resolves to an
\* organization, i.e. whose pipeline issues remote calls.
MaxResolvable == 1
\* Largest number of repositories a listing returns.
MaxRepos == 2

\* ------------------------------------------------------------------------
\* Strings as sequences of characters
\* ------------------------------------------------------------------------
RECURSIVE TrimStart(_)
TrimStart(s) ==
  IF s # <<>> /\ Head(s) = " " THEN TrimStart(Tail(s)) ELSE s

RECURSIVE TrimEnd(_)
TrimEnd(s) ==
  IF s # <<>> /\ s[Len(s)] = " " THEN TrimEnd(SubSeq(s, 1, Len(s) - 1)) ELSE s

\* String.prototype.trim
Trim(s) == TrimEnd(TrimStart(s))

\* s.replace(/\/+$/, "")
RECURSIVE StripTrailingSlashes(_)
StripTrailingSlashes(s) ==
  IF s # <<>> /\ s[Len(s)] = "/"
  THEN StripTrailingSlashes(SubSeq(s, 1, Len(s) - 1))
  ELSE s

StartsWith(s, p) == Len(s) >= Len(p) /\ SubSeq(s, 1, Len(p)) = p

Includes(s, p) ==
  \E k \in 1..(Len(s) - Len(p) + 1) : SubSeq(s, k, k + Len(p) - 1) = p

\* Position of the first "/" of s, or Len(s) + 1 when there is none.
RECURSIVE FirstSlash(_, _)
FirstSlash(s, k) ==
  IF k > Len(s) THEN k
  ELSE IF s[k] = "/" THEN k ELSE FirstSlash(s, k + 1)

\* pathname.split("/").filter(Boolean): the non-empty segments of a path.
RECURSIVE Segments(_)
Segments(p) ==
  IF p = <<>> THEN <<>>
  ELSE IF Head(p) = "/" THEN Segments(Tail(p))
  ELSE LET e == FirstSlash(p, 1)
       IN  <<SubSeq(p, 1, e - 1)>> \o Segments(SubSeq(p, e, Len(p)))

HTTP == <<"h", "t", "t", "p">>
HTTP_SCHEME == <<"h", "t", "t", "p", ":", "/", "/">>
HTTPS_SCHEME == <<"h", "t", "t", "p", "s", ":", "/", "/">>
GITHUB_COM == <<"g", "i", "t", "h", "u", "b", ".", "c", "o", "m">>

\* The URL parser skips every further "/" between the scheme and the host.
RECURSIVE SkipSlashes(_)
SkipSlashes(s) ==
  IF s # <<>> /\ Head(s) = "/" THEN SkipSlashes(Tail(s)) ELSE s

\* new URL(s) for the strings of the model: an http(s) scheme, a non-empty
\* host without blanks, and the path that follows it.  ok = FALSE stands
\* for the TypeError the constructor throws.
ParseURL(s) ==
  LET rest == SkipSlashes(IF StartsWith(s, HTTPS_SCHEME)
                            THEN SubSeq(s, Len(HTTPS_SCHEME) + 1, Len(s))
                            ELSE SubSeq(s, Len(HTTP_SCHEME) + 1, Len(s)))
      e    == FirstSlash(rest, 1)
      host == SubSeq(rest, 1, e - 1)
  IN  IF ~(StartsWith(s, HTTPS_SCHEME) \/ StartsWith(s, HTTP_SCHEME))
        THEN [ok |-> FALSE, hostname |-> <<>>, pathname |-> <<>>]
      ELSE IF host = <<>> \/ (\E k \in 1..Len(host) : host[k] = " ")
        THEN [ok |-> FALSE, hostname |-> <<>>, pathname |-> <<>>]
      ELSE [ok |-> TRUE, hostname |-> host,
            pathname |-> IF e > Len(rest) THEN <<"/">>
                         ELSE SubSeq(rest, e, Len(rest))]

\* The null of extractOrgName.
Null == <<>>

\* extractOrgName: the first path segment, or Null.
extractOrgName(url) ==
  LET cleaned == StripTrailingSlashes(Trim(url))
      urlObj  == ParseURL(IF StartsWith(cleaned, HTTP) THEN cleaned
                          ELSE HTTPS_SCHEME \o cleaned)
      parts   == Segments(urlObj.pathname)
  IN  IF ~urlObj.ok THEN Null
      ELSE IF ~Includes(urlObj.hostname, GITHUB_COM) THEN Null
      ELSE IF parts = <<>> THEN Null
      ELSE parts[1]

\* ------------------------------------------------------------------------
\* Data (src/lib/types.ts)
\* ------------------------------------------------------------------------
\* An optional field is <<>> when absent and <<v>> when present.
Absent == <<>>
Some(v) == <<v>>

\* JavaScript truthiness of an optional string (`result.value.error ? .. : ..`).
Truthy(opt) == opt # Absent /\ opt[1] # ""

N_A == "N/A"

CompanyNames == <<"c1", "c2", "c3", "c4", "c5", "c6", "c7", "c8">>

GoodUrl == GITHUB_COM \o <<"/", "a", "c">>
BadUrl == <<"x", ".", "i", "o", "/", "a", "c">>
Urls == {GoodUrl, BadUrl}

\* extractOrgName on the URLs of the model, evaluated once.
OrgNameOf == [url \in Urls |-> extractOrgName(url)]

CompanyInput(name, url) == [company_name |-> name, github_org_url |-> url]

CompanyResult(company, repo, repoUrl, count, contributor, error) ==
  [company_name         |-> company.company_name,
   github_org_url       |-> company.github_org_url,
   most_active_repo     |-> repo,
   most_active_repo_url |-> repoUrl,
   commit_count         |-> count,
   top_contributor      |-> contributor,
   error                |-> error]

ProgressEvent(type, company, message, result, done, of) ==
  [type |-> type, company |-> company, message |-> message,
   result |-> result, completed |-> done, total |-> of]

\* A message of the stream: the template it is built from and the values
\* filled in.
Message(prefix, kind, detail, n) ==
  [prefix |-> prefix, kind |-> kind, detail |-> detail, n |-> n]

RepoListItem(name, fork) ==
  [name |-> name, html_url |-> "https://github.com/ac/" \o name, fork |-> fork]

RepoCommitData(repo, count) ==
  [repoName |-> repo.name, repoUrl |-> repo.html_url, commitCount |-> count]

\* ------------------------------------------------------------------------
\* State
\* ------------------------------------------------------------------------
VARIABLES
  companies,    \* the request's `companies`
  pc,           \* where processCompanies stands
  i,            \* its loop variable: offset of the current window
  completed,    \* its counter `completed`
  results,      \* the array returned by Promise.allSettled
  j,            \* position of the `for (const result of results)` loop
  awaiting,     \* the write processCompanies awaits
  task,         \* the pipelines: one async callback of batch.map per company
  emitted,      \* every event handed to sendEvent, in call order
  pending,      \* writes of the writer not yet taken by the consumer
  received,     \* the events the consumer has read
  connected,    \* the consumer has not cancelled the readable side
  settleOrder,  \* history: the companies in the order their pipelines settled
  \* One call of analyzeCompany, followed call by call:
  aCompany,     \* its argument `company`
  apc,          \* where analyzeCompany stands
  aOrgName,     \* its `orgName`
  aRepos,       \* its `repos`
  counters,     \* the calls of getRepoCommitCount, one per repository
  aRepoResults, \* its `repoResults`
  aMostActive,  \* its `mostActive`
  tally,        \* the call of getTopContributor
  outcome,      \* what analyzeCompany returned or threw
  progressCalls,\* history: the messages handed to onProgress
  aCallbackThrows, \* the onProgress it was given can throw
  aCalls,       \* history: the calls it issued and how they settled
  \* One remote call of the throttled client:
  call,         \* its submissions, retry count and outcome
  \* One request handled by POST, up to its response:
  request,      \* the request body
  response,     \* what POST answered, and what it had created by then
  \* One call of extractOrgName:
  urlArg,       \* its argument
  urlResult     \* what it returned

analysisVars == <<aCompany, apc, aOrgName, aRepos, counters, aRepoResults,
                  aMostActive, tally, outcome, progressCalls, aCallbackThrows,
                  aCalls>>

schedulerVars == <<companies, pc, i, completed, results, j, awaiting, task,
                   emitted, pending, received, connected, settleOrder>>

unitVars == <<call, request, response, urlArg, urlResult>>

vars == <<schedulerVars, analysisVars, unitVars>>

total == Len(companies)

\* Mutant of BatchOf: a window one entry too long.
BatchOf_OneTooMany(o) ==
  (o + 1)..(IF o + BATCH_SIZE + 1 < total THEN o + BATCH_SIZE + 1 ELSE total)

\* companies.slice(i, i + BATCH_SIZE): the indices of the window at offset o.
BatchOf(o) == (o + 1)..(IF o + BATCH_SIZE < total THEN o + BATCH_SIZE ELSE total)

Settled(c) == task[c].pc \in {"fulfilled", "rejected"}
InFlight(c) == task[c].pc \notin {"idle", "fulfilled", "rejected"}

\* The promise of writer.write for the event at position t of `emitted` has
\* settled: the consumer took the chunk, or the stream is broken.
WriteSettled(t) == \A k \in 1..Len(pending) : pending[k] # t

\* Mutant of sendEvent: no try/catch, so a write on a cancelled stream is not
\* swallowed and the caller waits on it for ever.
sendEvent_NoCatch(evs) ==
  /\ emitted' = emitted \o evs
  /\ pending' = pending \o [k \in 1..Len(evs) |-> Len(emitted) + k]

\* Mutant of sendEvent: the new writes are queued ahead of the pending ones.
sendEvent_Unordered(evs) ==
  /\ emitted' = emitted \o evs
  /\ pending' = IF connected
                  THEN [k \in 1..Len(evs) |-> Len(emitted) + k] \o pending
                  ELSE pending

\* sendEvent for a list of events issued in one synchronous run: each write
\* is queued in call order; on a cancelled stream writer.write rejects and
\* the catch swallows it.
sendEvent(evs) ==
  /\ emitted' = emitted \o evs
  /\ pending' = IF connected
                  THEN pending \o [k \in 1..Len(evs) |-> Len(emitted) + k]
                  ELSE pending

IdleTask ==
  [pc |-> "idle", ticket |-> 0, orgName |-> Null, repos |-> <<>>,
   mostActive |-> Absent, value |-> Absent, reason |-> Absent]

\* A continuation is runnable: the event loop runs it before any I/O event.
MicrotaskReady ==
  \/ pc \in {"loop", "report"}
  \/ pc = "allSettled" /\ \A c \in BatchOf(i) : Settled(c)
  \/ pc \in {"awaitReport", "awaitDone"} /\ WriteSettled(awaiting)
  \/ \E c \in 1..total : task[c].pc = "sendEvent" /\ WriteSettled(task[c].ticket)

\* ------------------------------------------------------------------------
\* Accepted requests
\* ------------------------------------------------------------------------
Resolvable(url) == OrgNameOf[url] # Null

Batches ==
  { b \in UNION { [1..n -> Urls] : n \in 1..MaxCompanies } :
      Cardinality({k \in DOMAIN b : Resolvable(b[k])}) <= MaxResolvable }

\* No remote call, request or extractOrgName call is followed on its own.
UnitsIdle ==
  /\ call = <<>>
  /\ request = <<>>
  /\ response = <<>>
  /\ urlArg = <<>>
  /\ urlResult = <<>>

\* No call of analyzeCompany is followed.
AnalysisIdle ==
  /\ aCompany = CompanyInput("", <<>>)
  /\ apc = "idle"
  /\ aOrgName = Null
  /\ aRepos = <<>>
  /\ counters = <<>>
  /\ aRepoResults = <<>>
  /\ aMostActive = Absent
  /\ tally = Absent
  /\ outcome = Absent
  /\ progressCalls = <<>>
  /\ aCallbackThrows = FALSE
  /\ aCalls = <<>>

Init ==
  /\ UnitsIdle
  /\ AnalysisIdle
  /\ \E b \in Batches :
       companies = [k \in DOMAIN b |-> CompanyInput(CompanyNames[k], b[k])]
  /\ pc = "loop"
  /\ i = 0
  /\ completed = 0
  /\ results = <<>>
  /\ j = 0
  /\ awaiting = 0
  /\ task = [c \in 1..Len(companies) |-> IdleTask]
  /\ emitted = <<>>
  /\ pending = <<>>
  /\ received = <<>>
  /\ connected = TRUE
  /\ settleOrder = <<>>

\* ------------------------------------------------------------------------
\* analyzeCompany (src/lib/github.ts), at the grain of its awaits
\* ------------------------------------------------------------------------
InvalidUrlResult(company) ==
  CompanyResult(company, N_A, N_A, 0, N_A, Some("Invalid GitHub URL"))

\* Mutant of NoReposResult: the result of an inactive company is returned.
NoReposResult_NoError(company) ==
  CompanyResult(company, N_A, N_A, 0, N_A, Absent)

NoReposResult(company) ==
  CompanyResult(company, N_A, N_A, 0, N_A, Some("No repos found"))

\* Mutant of NoActivityResult: inactivity reported as an error.
NoActivityResult_AsError(company) ==
  CompanyResult(company, N_A, N_A, 0, N_A, Some("No recent activity"))

NoActivityResult(company) ==
  CompanyResult(company, N_A, N_A, 0, N_A, Absent)

PopulatedResult(company, mostActive, topContributor) ==
  CompanyResult(company, mostActive.repoName, mostActive.repoUrl,
                mostActive.commitCount, topContributor, Absent)

\* Mutant of Better: `>=`, the last of the tied repositories wins.
Better_OrEqual(best, current) ==
  IF current.commitCount >= best.commitCount THEN current ELSE best

\* The callback of repoResults.reduce.
Better(best, current) ==
  IF current.commitCount > best.commitCount THEN current ELSE best

RECURSIVE ReduceFrom(_, _, _)
ReduceFrom(rs, k, best) ==
  IF k > Len(rs) THEN best ELSE ReduceFrom(rs, k + 1, Better(best, rs[k]))

\* repoResults.reduce(callback) without an initial value.
MostActive(repoResults) == ReduceFrom(repoResults, 2, repoResults[1])

\* What the remote API can answer in the scheduler's model.
RemoteError == [isError |-> TRUE, message |-> "Server Error"]
ReposFound == {<<>>, <<RepoListItem("x", FALSE)>>}
CountsFound == {0, 3}
ContributorsFound == {"alice"}

\* Mutant of onProgress: `completed` filled with the total.
onProgress_CompletedIsTotal(c, kind, detail, n) ==
  sendEvent(<<ProgressEvent("progress", companies[c].company_name,
                Message(companies[c].company_name, kind, detail, n),
                Absent, total, total)>>)

\* The onProgress callback passed by processCompanies: sendEvent, not awaited.
onProgress(c, kind, detail, n) ==
  sendEvent(<<ProgressEvent("progress", companies[c].company_name,
                Message(companies[c].company_name, kind, detail, n),
                Absent, completed, total)>>)

Fulfil(c, value) ==
  /\ task' = [task EXCEPT ![c] = [IdleTask EXCEPT !.pc = "fulfilled",
                                                  !.value = Some(value)]]
  /\ settleOrder' = Append(settleOrder, c)

Reject(c, reason) ==
  /\ task' = [task EXCEPT ![c] = [IdleTask EXCEPT !.pc = "rejected",
                                                  !.reason = Some(reason)]]
  /\ settleOrder' = Append(settleOrder, c)

\* The callback of batch.map resumes after `await sendEvent(..)` and calls
\* analyzeCompany, which runs to its first await (listOrgRepos) or returns.
PipelineStart(c) ==
  /\ task[c].pc = "sendEvent"
  /\ WriteSettled(task[c].ticket)
  /\ \A d \in 1..(c - 1) : task[d].pc # "sendEvent"
  /\ LET orgName == OrgNameOf[companies[c].github_org_url]
     IN  IF orgName = Null
           THEN /\ Fulfil(c, InvalidUrlResult(companies[c]))
                /\ UNCHANGED <<emitted, pending>>
           ELSE /\ onProgress(c, "Fetching repos", orgName, 0)
                /\ task' = [task EXCEPT ![c].pc = "listOrgRepos",
                                        ![c].orgName = orgName]
                /\ UNCHANGED settleOrder
  /\ UNCHANGED <<unitVars, analysisVars, companies, pc, i, completed, results, j, awaiting, received,
                 connected>>

\* `await listOrgRepos(..)` returns or throws.
ListOrgReposReturn(c) ==
  /\ task[c].pc = "listOrgRepos"
  /\ ~MicrotaskReady
  /\ \/ /\ Reject(c, RemoteError)
        /\ UNCHANGED <<emitted, pending>>
     \/ \E repos \in ReposFound :
          IF Len(repos) = 0
            THEN /\ Fulfil(c, NoReposResult(companies[c]))
                 /\ UNCHANGED <<emitted, pending>>
            ELSE /\ onProgress(c, "Found repos", task[c].orgName, Len(repos))
                 /\ task' = [task EXCEPT ![c].pc = "getRepoCommitCount",
                                         ![c].repos = repos]
                 /\ UNCHANGED settleOrder
  /\ UNCHANGED <<unitVars, analysisVars, companies, pc, i, completed, results, j, awaiting, received,
                 connected>>

\* `await Promise.all(repos.map(..))` returns: every count was obtained or
\* replaced by 0; the winner is selected.
CountsReturn(c) ==
  /\ task[c].pc = "getRepoCommitCount"
  /\ ~MicrotaskReady
  /\ \E counts \in [1..Len(task[c].repos) -> CountsFound] :
       LET repoResults == [k \in 1..Len(task[c].repos) |->
                             RepoCommitData(task[c].repos[k], counts[k])]
           mostActive  == MostActive(repoResults)
       IN  IF mostActive.commitCount = 0
             THEN /\ Fulfil(c, NoActivityResult(companies[c]))
                  /\ UNCHANGED <<emitted, pending>>
             ELSE /\ onProgress(c, "Most active", <<mostActive.repoName>>,
                                mostActive.commitCount)
                  /\ task' = [task EXCEPT ![c].pc = "getTopContributor",
                                          ![c].mostActive = Some(mostActive)]
                  /\ UNCHANGED settleOrder
  /\ UNCHANGED <<unitVars, analysisVars, companies, pc, i, completed, results, j, awaiting, received,
                 connected>>

\* `await getTopContributor(..)` returns or throws.
TopContributorReturn(c) ==
  /\ task[c].pc = "getTopContributor"
  /\ ~MicrotaskReady
  /\ \/ Reject(c, RemoteError)
     \/ \E login \in ContributorsFound :
          Fulfil(c, PopulatedResult(companies[c], task[c].mostActive[1], login))
  /\ UNCHANGED <<unitVars, analysisVars, companies, pc, i, completed, results, j, awaiting, emitted,
                 pending, received, connected>>

\* ------------------------------------------------------------------------
\* processCompanies (src/app/api/analyze/route.ts)
\* ------------------------------------------------------------------------
\* The loop head with i < companies.length: batch.map starts every callback of
\* the window; each runs to its `await sendEvent(..)`.
StartWindow ==
  /\ pc = "loop"
  /\ i < total
  /\ sendEvent([k \in 1..Cardinality(BatchOf(i)) |->
        ProgressEvent("progress", companies[i + k].company_name,
          Message(companies[i + k].company_name, "Analyzing", <<>>, 0),
          Absent, completed, total)])
  /\ task' = [c \in 1..total |->
                IF c \in BatchOf(i)
                  THEN [task[c] EXCEPT !.pc = "sendEvent",
                                       !.ticket = Len(emitted) + (c - i)]
                  ELSE task[c]]
  /\ pc' = "allSettled"
  /\ UNCHANGED <<unitVars, analysisVars, companies, i, completed, results, j, awaiting, received,
                 connected, settleOrder>>

\* Mutant of AllSettled: the result objects in the order of settlement.
AllSettled_InSettlementOrder ==
  /\ pc = "allSettled"
  /\ \A c \in BatchOf(i) : Settled(c)
  /\ results' = LET order == SelectSeq(settleOrder, LAMBDA c : c \in BatchOf(i))
                IN  [k \in 1..Len(order) |->
                       [ref    |-> order[k],
                        status |-> task[order[k]].pc,
                        value  |-> task[order[k]].value,
                        reason |-> task[order[k]].reason]]
  /\ j' = 1
  /\ pc' = "report"
  /\ UNCHANGED <<unitVars, analysisVars, companies, i, completed, awaiting, task, emitted, pending,
                 received, connected, settleOrder>>

\* Promise.allSettled resolves: one object per callback, in input order.
AllSettled ==
  /\ pc = "allSettled"
  /\ \A c \in BatchOf(i) : Settled(c)
  /\ results' = [k \in 1..Cardinality(BatchOf(i)) |->
                   [ref    |-> i + k,
                    status |-> task[i + k].pc,
                    value  |-> task[i + k].value,
                    reason |-> task[i + k].reason]]
  /\ j' = 1
  /\ pc' = "report"
  /\ UNCHANGED <<unitVars, analysisVars, companies, i, completed, awaiting, task, emitted, pending,
                 received, connected, settleOrder>>

\* results.indexOf(result): objects are compared by identity; 0 stands for -1.
IndexOf(rs, result) ==
  IF \E k \in 1..Len(rs) : rs[k].ref = result.ref
    THEN CHOOSE k \in 1..Len(rs) :
           /\ rs[k].ref = result.ref
           /\ \A m \in 1..(k - 1) : rs[m].ref # result.ref
    ELSE 0

\* Mutant of BatchAt: the index is taken in `companies`, not in `batch`.
BatchAt_InCompanies(idx) ==
  IF idx \in 1..total THEN Some(companies[idx]) ELSE Absent

\* batch[idx] with idx counted from 1: Absent stands for undefined.
BatchAt(idx) ==
  IF idx \in 1..Cardinality(BatchOf(i)) THEN Some(companies[i + idx]) ELSE Absent

\* The event of a fulfilled entry.
FulfilledEvent(value, done) ==
  ProgressEvent(IF Truthy(value.error) THEN "error" ELSE "result",
    value.company_name,
    IF Truthy(value.error)
      THEN Message(value.company_name, "error", value.error, 0)
      ELSE Message(value.company_name, "result", <<value.most_active_repo>>,
                   value.commit_count),
    Some(value), done, total)

\* Mutant of RejectedEvent: the synthesized result leaves the repository
\* fields empty instead of "N/A".
RejectedEvent_EmptyFields(result, done) ==
  LET errorMessage == IF result.reason[1].isError
                        THEN result.reason[1].message
                        ELSE "Unknown error"
      entry        == BatchAt(IndexOf(results, result))
      companyName  == IF entry = Absent THEN "Unknown" ELSE entry[1].company_name
      orgUrl       == IF entry = Absent THEN <<>> ELSE entry[1].github_org_url
  IN  ProgressEvent("error", companyName,
        Message(companyName, "error", Some(errorMessage), 0),
        Some([company_name         |-> companyName,
              github_org_url       |-> orgUrl,
              most_active_repo     |-> "",
              most_active_repo_url |-> "",
              commit_count         |-> 0,
              top_contributor      |-> N_A,
              error                |-> Some(errorMessage)]),
        done, total)

\* The event synthesized for a rejected entry.
RejectedEvent(result, done) ==
  LET errorMessage == IF result.reason[1].isError
                        THEN result.reason[1].message
                        ELSE "Unknown error"
      entry        == BatchAt(IndexOf(results, result))
      companyName  == IF entry = Absent THEN "Unknown" ELSE entry[1].company_name
      orgUrl       == IF entry = Absent THEN <<>> ELSE entry[1].github_org_url
  IN  ProgressEvent("error", companyName,
        Message(companyName, "error", Some(errorMessage), 0),
        Some([company_name         |-> companyName,
              github_org_url       |-> orgUrl,
              most_active_repo     |-> N_A,
              most_active_repo_url |-> N_A,
              commit_count         |-> 0,
              top_contributor      |-> N_A,
              error                |-> Some(errorMessage)]),
        done, total)

\* One turn of `for (const result of results)` up to its `await sendEvent`.
Report ==
  /\ pc = "report"
  /\ completed' = completed + 1
  /\ sendEvent(<<IF results[j].status = "fulfilled"
                   THEN FulfilledEvent(results[j].value[1], completed + 1)
                   ELSE RejectedEvent(results[j], completed + 1)>>)
  /\ awaiting' = Len(emitted) + 1
  /\ pc' = "awaitReport"
  /\ UNCHANGED <<unitVars, analysisVars, companies, i, results, j, task, received, connected,
                 settleOrder>>

\* The awaited write has settled: next entry, or next window.
ReportSent ==
  /\ pc = "awaitReport"
  /\ WriteSettled(awaiting)
  /\ IF j < Len(results)
       THEN j' = j + 1 /\ pc' = "report" /\ i' = i
       ELSE j' = j /\ pc' = "loop" /\ i' = i + BATCH_SIZE
  /\ UNCHANGED <<unitVars, analysisVars, companies, completed, results, awaiting, task, emitted,
                 pending, received, connected, settleOrder>>

\* Mutant of SendDone: the `done` event is sent without the loop being over.
SendDone_BeforeTheEnd ==
  /\ pc = "loop"
  /\ sendEvent(<<ProgressEvent("done", "",
                   Message("", "Finished analyzing", <<>>, total),
                   Absent, total, total)>>)
  /\ awaiting' = Len(emitted) + 1
  /\ pc' = "awaitDone"
  /\ UNCHANGED <<unitVars, analysisVars, companies, i, completed, results, j, task, received,
                 connected, settleOrder>>

\* After the loop: the `done` event.
SendDone ==
  /\ pc = "loop"
  /\ i >= total
  /\ sendEvent(<<ProgressEvent("done", "",
                   Message("", "Finished analyzing", <<>>, total),
                   Absent, total, total)>>)
  /\ awaiting' = Len(emitted) + 1
  /\ pc' = "awaitDone"
  /\ UNCHANGED <<unitVars, analysisVars, companies, i, completed, results, j, task, received,
                 connected, settleOrder>>

\* writer.close() in its try/catch.
Close ==
  /\ pc = "awaitDone"
  /\ WriteSettled(awaiting)
  /\ pc' = "closed"
  /\ UNCHANGED <<unitVars, analysisVars, companies, i, completed, results, j, awaiting, task, emitted,
                 pending, received, connected, settleOrder>>

\* ------------------------------------------------------------------------
\* The consumer of the stream
\* ------------------------------------------------------------------------
\* The consumer reads one chunk: the oldest pending write completes.
ConsumerRead ==
  /\ connected
  /\ pending # <<>>
  /\ ~MicrotaskReady
  /\ received' = Append(received, emitted[Head(pending)])
  /\ pending' = Tail(pending)
  /\ UNCHANGED <<unitVars, analysisVars, companies, pc, i, completed, results, j, awaiting, task,
                 emitted, connected, settleOrder>>

\* The consumer goes away: the stream is cancelled, every pending and every
\* later write rejects.
ConsumerDisconnect ==
  /\ connected
  /\ pc # "closed"
  /\ ~MicrotaskReady
  /\ connected' = FALSE
  /\ pending' = <<>>
  /\ UNCHANGED <<unitVars, analysisVars, companies, pc, i, completed, results, j, awaiting, task,
                 emitted, received, settleOrder>>

Pipeline ==
  \E c \in 1..total :
    \/ PipelineStart(c)
    \/ ListOrgReposReturn(c)
    \/ CountsReturn(c)
    \/ TopContributorReturn(c)

Scheduler ==
  \/ StartWindow
  \/ AllSettled
  \/ Report
  \/ ReportSent
  \/ SendDone
  \/ Close

Consumer ==
  \/ ConsumerRead
  \/ ConsumerDisconnect

Next == Pipeline \/ Scheduler \/ Consumer

Spec == Init /\ [][Next]_vars

\* The scheduler's and the pipelines' steps are taken when enabled (the event
\* loop runs every runnable continuation) and every remote call returns or
\* fails; nothing is assumed of the consumer.
FairSpec == Spec /\ WF_vars(Pipeline \/ Scheduler)

\* ------------------------------------------------------------------------
\* Properties of the event stream
\* ------------------------------------------------------------------------
Terminal(e) == e.type \in {"result", "error"}

DoneEvents == {k \in 1..Len(emitted) : emitted[k].type = "done"}

TerminalEvents == {k \in 1..Len(emitted) : Terminal(emitted[k])}

\* The terminal events about company c.
TerminalOf(c) ==
  {k \in TerminalEvents : emitted[k].company = companies[c].company_name}

Finished == pc \in {"awaitDone", "closed"}

WindowOf(c) == (c - 1) \div BATCH_SIZE

\* C1: the emitted sequence holds at most one `done` event; a `done` event is
\* the last event, carries completed = total = N and is preceded by exactly N
\* `result`/`error` events; and once the loop is over the `done` event is there.
C1_ExactlyOneDoneLast ==
  /\ Cardinality(DoneEvents) <= 1
  /\ \A k \in DoneEvents :
       /\ k = Len(emitted)
       /\ emitted[k].completed = total
       /\ emitted[k].total = total
       /\ Cardinality(TerminalEvents) = total
  /\ Finished => DoneEvents # {}

C1_Witness ==
  /\ pc = "closed"
  /\ total > BATCH_SIZE
  /\ \E c \in 1..total : task[c].pc = "rejected"
  /\ \E c \in 1..total : task[c].pc = "fulfilled"

\* C2: every company gets at most one terminal event, and exactly one once the
\* loop is over; the event of a pipeline that threw is an `error` event whose
\* result carries the failure message, the name and URL of that same input,
\* the sentinels and commit_count 0.
C2_OneTerminalEventEach ==
  \A c \in 1..total :
    /\ Cardinality(TerminalOf(c)) <= 1
    /\ (Finished \/ c <= i) => Cardinality(TerminalOf(c)) = 1
    /\ \A k \in TerminalOf(c) :
         task[c].pc = "rejected" =>
           /\ emitted[k].type = "error"
           /\ emitted[k].result =
                Some([company_name         |-> companies[c].company_name,
                      github_org_url       |-> companies[c].github_org_url,
                      most_active_repo     |-> N_A,
                      most_active_repo_url |-> N_A,
                      commit_count         |-> 0,
                      top_contributor      |-> N_A,
                      error                |-> Some(task[c].reason[1].message)])

C2_Witness ==
  /\ pc = "closed"
  /\ \E c \in 1..total :
       /\ c > BATCH_SIZE
       /\ task[c].pc = "rejected"
       /\ TerminalOf(c) # {}

Monotone ==
  \A k, m \in 1..Len(emitted) :
    k < m => emitted[k].completed <= emitted[m].completed

\* C3 as stated: `completed` never decreases along the emitted sequence and
\* only the `done` event carries completed = total.
C3_CompletedReachesTotalOnlyAtDone ==
  /\ Monotone
  /\ \A k \in 1..Len(emitted) :
       emitted[k].completed = emitted[k].total => emitted[k].type = "done"

\* C3 amended: `completed` never decreases along the emitted sequence; no
\* progress event carries completed = total; the events that carry it are the
\* `done` event and the terminal event of the last entry of the batch.
C3_CompletedReachesTotalAtLastEntry ==
  /\ Monotone
  /\ \A k \in 1..Len(emitted) :
       emitted[k].completed = emitted[k].total <=>
         \/ emitted[k].type = "done"
         \/ /\ Terminal(emitted[k])
            /\ Cardinality({m \in TerminalEvents : m <= k}) = total

C3_Witness ==
  /\ pc = "closed"
  /\ total > BATCH_SIZE
  /\ \E k \in 1..Len(emitted) :
       emitted[k].type = "progress" /\ emitted[k].completed = BATCH_SIZE
  /\ \E k \in TerminalEvents : emitted[k].completed = total

\* C4: at most BATCH_SIZE pipelines are in flight; the pipelines started are
\* those of the windows up to the current one; a pipeline of a later window is
\* started only when every pipeline of the earlier windows has settled; the
\* pipelines of one window are started together, whatever becomes of them.
C4_WindowsOfFive ==
  /\ Cardinality({c \in 1..total : InFlight(c)}) <= BATCH_SIZE
  /\ i % BATCH_SIZE = 0
  /\ \A c \in 1..total : InFlight(c) => c \in BatchOf(i)
  /\ \A c, d \in 1..total :
       /\ (WindowOf(c) < WindowOf(d) /\ task[d].pc # "idle") => Settled(c)
       /\ WindowOf(c) = WindowOf(d) => (task[c].pc = "idle" <=> task[d].pc = "idle")

C4_Witness ==
  /\ total > BATCH_SIZE
  /\ \E c, d \in 1..total :
       /\ WindowOf(c) = 0 /\ task[c].pc = "rejected"
       /\ WindowOf(d) = 1 /\ InFlight(d)

\* Position of company c in the order of settlement.
SettledAt(c) == CHOOSE k \in 1..Len(settleOrder) : settleOrder[k] = c

\* Position of the terminal event of company c in the emitted sequence.
ReportedAt(c) == CHOOSE k \in TerminalOf(c) : TRUE

\* C5 as stated: within a window the terminal events are emitted, and
\* `completed` grows, in the order in which the pipelines settled.
C5_ReportedInSettlementOrder ==
  \A a, b \in 1..total :
    (/\ WindowOf(a) = WindowOf(b)
     /\ TerminalOf(a) # {} /\ TerminalOf(b) # {}
     /\ SettledAt(a) < SettledAt(b))
    => /\ ReportedAt(a) < ReportedAt(b)
       /\ emitted[ReportedAt(a)].completed < emitted[ReportedAt(b)].completed

\* C5 amended: the terminal events are emitted, and `completed` grows, in
\* input order, after the whole window has settled: the terminal event of
\* the entry at position c carries completed = c, whatever the order of
\* settlement.
C5_ReportedInInputOrder ==
  /\ \A a, b \in 1..total :
       (a < b /\ TerminalOf(a) # {} /\ TerminalOf(b) # {})
       => ReportedAt(a) < ReportedAt(b)
  /\ \A c \in 1..total :
       TerminalOf(c) # {} =>
         /\ emitted[ReportedAt(c)].completed = c
         /\ \A d \in BatchOf(WindowOf(c) * BATCH_SIZE) : Settled(d)

C5_Witness ==
  \E a, b \in 1..total :
    /\ a < b
    /\ WindowOf(a) = WindowOf(b)
    /\ TerminalOf(a) # {} /\ TerminalOf(b) # {}
    /\ SettledAt(b) < SettledAt(a)

\* C6 as stated: whatever the consumer does, the scheduler eventually emits
\* the `done` event and closes the stream.
C6_EventuallyDone == <>(pc = "closed" /\ DoneEvents # {})

\* C7: once the consumer has disconnected no write stays pending and nothing
\* more is delivered, and the run still reaches the end: a terminal event was
\* attempted for every company, then the `done` event, and the writer is
\* closed.
C7_DisconnectedRunCompletes ==
  /\ [](~connected => pending = <<>>)
  /\ [][~connected => received' = received]_vars
  /\ (~connected) ~>
       (/\ pc = "closed"
        /\ DoneEvents # {}
        /\ \A c \in 1..total : TerminalOf(c) # {})

C7_Witness ==
  /\ ~connected
  /\ pc = "closed"
  /\ total > BATCH_SIZE
  /\ Len(received) < BATCH_SIZE
  /\ \E c \in 1..BATCH_SIZE : task[c].value # Absent /\ task[c].value[1].error = Absent

\* ------------------------------------------------------------------------
\* One analysis in detail (src/lib/github.ts): every remote call is a step
\* ------------------------------------------------------------------------
RepoNames == <<"x", "y", "z">>

\* What listForOrg can return (type "sources": the server leaves forks out).
OrgListings ==
  { [k \in 1..n |-> RepoListItem(RepoNames[k], FALSE)] : n \in 0..MaxRepos }

\* What listForUser can return (type "owner": forks included).
UserListings ==
  UNION { { [k \in 1..n |-> RepoListItem(RepoNames[k], f[k])] :
              f \in [1..n -> BOOLEAN] } : n \in 0..MaxRepos }

\* Mutant of WithoutForks: the listing as it came.
WithoutForks_Unfiltered(data) == data

\* data.filter((r) => !r.fork) of the user listing.
WithoutForks(data) == SelectSeq(data, LAMBDA r : ~r.fork)

\* The statuses a failed listing carries.
FailureStatuses == {NOT_FOUND, 500}

RequestError(status) ==
  [isError |-> TRUE, status |-> status, message |-> "Request failed"]

\* A commit of the listing: the fields getTopContributor reads.
Commit(login, name) == [login |-> login, name |-> name]
Alice == Commit(Some("alice"), Some("Alice"))
Bob == Commit(Absent, Some("bob"))
Ghost == Commit(Some(""), Absent)
Anon == Commit(Absent, Some(N_A))

\* A page of the commit listing, run-length encoded: n commits in a row
\* with the same author fields.
Run(commit, n) == [commit |-> commit, n |-> n]

ShortPages ==
  { <<>>,
    <<Run(Alice, 3)>>,
    <<Run(Alice, 2), Run(Bob, 2)>>,
    <<Run(Bob, 2), Run(Alice, 2)>>,
    <<Run(Ghost, 1), Run(Bob, 9)>>,
    <<Run(Anon, 1)>> }

FullPages ==
  { <<Run(Alice, PER_PAGE)>>,
    <<Run(Bob, 50), Run(Alice, 50)>> }

Pages == ShortPages \cup FullPages

\* data.length
RECURSIVE PageLen(_)
PageLen(data) ==
  IF data = <<>> THEN 0 ELSE Head(data).n + PageLen(Tail(data))

Min(a, b) == IF a < b THEN a ELSE b

\* --- getRepoCommitCount -------------------------------------------------
\* A call of getRepoCommitCount awaiting its first listCommits.
NewCounter ==
  [status |-> "listCommits", count |-> 0, page |-> 1, fetched |-> <<>>,
   returned |-> 0]

\* Mutant of getRepoCommitCountTurn: the loop goes on while count <= MAX_COMMITS.
getRepoCommitCountTurn_OneMorePage(st, data) ==
  LET len   == PageLen(data)
      seen  == Append(st.fetched, len)
      count == st.count + len
  IN  IF len = 0
        THEN [st EXCEPT !.status = "returned", !.fetched = seen,
                        !.returned = Min(st.count, MAX_COMMITS)]
      ELSE IF len < PER_PAGE
        THEN [st EXCEPT !.status = "returned", !.fetched = seen,
                        !.count = count, !.returned = Min(count, MAX_COMMITS)]
      ELSE IF count <= MAX_COMMITS
        THEN [st EXCEPT !.fetched = seen, !.count = count, !.page = st.page + 1]
      ELSE [st EXCEPT !.status = "returned", !.fetched = seen,
                      !.count = count, !.page = st.page + 1,
                      !.returned = Min(count, MAX_COMMITS)]

\* One turn of the while loop of getRepoCommitCount, from the page `data` its
\* listCommits returned to the next listCommits or to the return.
getRepoCommitCountTurn(st, data) ==
  LET len   == PageLen(data)
      seen  == Append(st.fetched, len)
      count == st.count + len
  IN  IF len = 0
        THEN [st EXCEPT !.status = "returned", !.fetched = seen,
                        !.returned = Min(st.count, MAX_COMMITS)]
      ELSE IF len < PER_PAGE
        THEN [st EXCEPT !.status = "returned", !.fetched = seen,
                        !.count = count, !.returned = Min(count, MAX_COMMITS)]
      ELSE IF count < MAX_COMMITS
        THEN [st EXCEPT !.fetched = seen, !.count = count, !.page = st.page + 1]
      ELSE [st EXCEPT !.status = "returned", !.fetched = seen,
                      !.count = count, !.page = st.page + 1,
                      !.returned = Min(count, MAX_COMMITS)]

\* --- getTopContributor --------------------------------------------------
\* commit.author?.login || commit.commit?.author?.name || "unknown"
AuthorKey(commit) ==
  IF Truthy(commit.login) THEN commit.login[1]
  ELSE IF Truthy(commit.name) THEN commit.name[1]
  ELSE "unknown"

\* A Map is the sequence of its entries in insertion order.
MapHas(m, key) == \E k \in 1..Len(m) : m[k].key = key

\* authorCounts.get(login) || 0
MapGetOrZero(m, key) ==
  IF MapHas(m, key)
    THEN m[CHOOSE k \in 1..Len(m) : m[k].key = key].value
    ELSE 0

\* authorCounts.set(login, value): an existing key keeps its place.
MapSet(m, key, value) ==
  IF MapHas(m, key)
    THEN [k \in 1..Len(m) |->
            IF m[k].key = key THEN [key |-> key, value |-> value] ELSE m[k]]
    ELSE Append(m, [key |-> key, value |-> value])

\* `authorCounts.set(login, (authorCounts.get(login) || 0) + 1)` run for n
\* commits in a row with the same login: the first of them inserts the key
\* when it is new, and each adds 1.
CountCommits(m, login, n) ==
  IF n = 0 THEN m ELSE MapSet(m, login, MapGetOrZero(m, login) + n)

RECURSIVE CountPage(_, _)
CountPage(m, data) ==
  IF data = <<>> THEN m
  ELSE CountPage(CountCommits(m, AuthorKey(Head(data).commit), Head(data).n),
                 Tail(data))

\* Mutant of TopFrom: `count >= topCount`, the last of the tied authors wins.
RECURSIVE TopFrom_LastOfTies(_, _, _, _)
TopFrom_LastOfTies(m, k, topAuthor, topCount) ==
  IF k > Len(m) THEN topAuthor
  ELSE IF m[k].value >= topCount
    THEN TopFrom_LastOfTies(m, k + 1, m[k].key, m[k].value)
    ELSE TopFrom_LastOfTies(m, k + 1, topAuthor, topCount)

\* `for (const [author, count] of authorCounts)` from entry k on.
RECURSIVE TopFrom(_, _, _, _)
TopFrom(m, k, topAuthor, topCount) ==
  IF k > Len(m) THEN topAuthor
  ELSE IF m[k].value > topCount
    THEN TopFrom(m, k + 1, m[k].key, m[k].value)
    ELSE TopFrom(m, k + 1, topAuthor, topCount)

\* The end of getTopContributor, after the paging loop.
TopAuthor(authorCounts) ==
  IF Len(authorCounts) = 0 THEN N_A ELSE TopFrom(authorCounts, 1, N_A, 0)

\* A call of getTopContributor awaiting its first listCommits.
NewTally ==
  [status |-> "listCommits", page |-> 1, authorCounts |-> <<>>,
   fetched |-> <<>>, returned |-> ""]

\* One turn of the while loop of getTopContributor, from the page `data` its
\* listCommits returned to the next listCommits or to the return.
getTopContributorTurn(st, data) ==
  LET len    == PageLen(data)
      seen   == Append(st.fetched, data)
      counts == CountPage(st.authorCounts, data)
  IN  IF len = 0
        THEN [st EXCEPT !.status = "returned", !.fetched = seen,
                        !.returned = TopAuthor(st.authorCounts)]
      ELSE IF len < PER_PAGE
        THEN [st EXCEPT !.status = "returned", !.fetched = seen,
                        !.authorCounts = counts, !.returned = TopAuthor(counts)]
      ELSE IF st.page + 1 <= MAX_PAGES
        THEN [st EXCEPT !.fetched = seen, !.authorCounts = counts,
                        !.page = st.page + 1]
      ELSE [st EXCEPT !.status = "returned", !.fetched = seen,
                      !.authorCounts = counts, !.page = st.page + 1,
                      !.returned = TopAuthor(counts)]

\* --- analyzeCompany ------------------------------------------------------
\* What a failing onProgress throws.
CallbackError == [isError |-> TRUE, message |-> "onProgress failed"]

Return(value) ==
  /\ apc' = "returned"
  /\ outcome' = Some([status |-> "fulfilled", value |-> Some(value),
                      reason |-> Absent])

Throw(reason) ==
  /\ apc' = "threw"
  /\ outcome' = Some([status |-> "rejected", value |-> Absent,
                      reason |-> Some(reason)])

\* A call analyzeCompany issues, and the way a call settles.
CallIssued(name, arg) ==
  [kind |-> "call", name |-> name, arg |-> arg, ok |-> TRUE, status |-> 0]

CallSettled(name, ok, status) ==
  [kind |-> "settled", name |-> name, arg |-> <<>>, ok |-> ok,
   status |-> status]

\* Mutant of AnalyzeStart: onProgress is called before the URL is looked at.
AnalyzeStart_ProgressFirst ==
  /\ apc = "start"
  /\ progressCalls' = Append(progressCalls, "Fetching repos")
  /\ LET org == OrgNameOf[aCompany.github_org_url]
     IN  IF org = Null
           THEN /\ Return(InvalidUrlResult(aCompany))
                /\ UNCHANGED <<aOrgName, aCalls>>
           ELSE /\ aOrgName' = org
                /\ apc' = "listForOrg"
                /\ aCalls' = Append(aCalls, CallIssued("listForOrg", org))
                /\ UNCHANGED outcome
  /\ UNCHANGED <<unitVars, schedulerVars, aCallbackThrows, aCompany, aRepos,
                 counters, aRepoResults, aMostActive, tally>>

\* analyzeCompany from its entry to the call of listOrgRepos.
AnalyzeStart ==
  /\ apc = "start"
  /\ LET org == OrgNameOf[aCompany.github_org_url]
     IN  IF org = Null
           THEN /\ Return(InvalidUrlResult(aCompany))
                /\ UNCHANGED <<aOrgName, progressCalls, aCalls>>
           ELSE /\ aOrgName' = org
                /\ progressCalls' = Append(progressCalls, "Fetching repos")
                /\ \/ /\ apc' = "listForOrg"
                      /\ aCalls' = Append(aCalls, CallIssued("listForOrg", org))
                      /\ UNCHANGED outcome
                   \/ /\ aCallbackThrows
                      /\ Throw(CallbackError)
                      /\ UNCHANGED aCalls
  /\ UNCHANGED <<unitVars, schedulerVars, aCallbackThrows, aCompany, aRepos, counters, aRepoResults,
                 aMostActive, tally>>

\* analyzeCompany from the return of listOrgRepos to the calls of
\* getRepoCommitCount, each of which issues its first listCommits.
Discovered(list, listing) ==
  LET done == Append(aCalls, CallSettled(listing, TRUE, 0))
  IN  IF Len(list) = 0
        THEN /\ Return(NoReposResult(aCompany))
             /\ aCalls' = done
             /\ UNCHANGED <<aRepos, counters, progressCalls>>
        ELSE /\ aRepos' = list
             /\ progressCalls' = Append(progressCalls, "Found repos")
             /\ \/ /\ counters' = [k \in 1..Len(list) |-> NewCounter]
                   /\ aCalls' = done \o [k \in 1..Len(list) |->
                                 CallIssued("getRepoCommitCount", list[k].name)]
                   /\ apc' = "Promise.all"
                   /\ UNCHANGED outcome
                \/ /\ aCallbackThrows
                   /\ Throw(CallbackError)
                   /\ aCalls' = done
                   /\ UNCHANGED counters

\* listOrgRepos: listForOrg returns or fails.
ListForOrgReturn ==
  /\ apc = "listForOrg"
  /\ \/ \E data \in OrgListings : Discovered(data, "listForOrg")
     \/ \E status \in FailureStatuses :
          IF status = NOT_FOUND
            THEN /\ apc' = "listForUser"
                 /\ aCalls' = aCalls \o
                      <<CallSettled("listForOrg", FALSE, status),
                        CallIssued("listForUser", aOrgName)>>
                 /\ UNCHANGED <<aRepos, counters, outcome, progressCalls>>
            ELSE /\ Throw(RequestError(status))
                 /\ aCalls' = Append(aCalls,
                                     CallSettled("listForOrg", FALSE, status))
                 /\ UNCHANGED <<aRepos, counters, progressCalls>>
  /\ UNCHANGED <<unitVars, schedulerVars, aCallbackThrows, aCompany, aOrgName, aRepoResults, aMostActive,
                 tally>>

\* listOrgRepos: listForUser returns (forks are filtered out) or fails.
ListForUserReturn ==
  /\ apc = "listForUser"
  /\ \/ \E data \in UserListings :
          Discovered(WithoutForks(data), "listForUser")
     \/ \E status \in FailureStatuses :
          /\ Throw(RequestError(status))
          /\ aCalls' = Append(aCalls, CallSettled("listForUser", FALSE, status))
          /\ UNCHANGED <<aRepos, counters, progressCalls>>
  /\ UNCHANGED <<unitVars, schedulerVars, aCallbackThrows, aCompany, aOrgName, aRepoResults, aMostActive,
                 tally>>

\* The listCommits of the k-th getRepoCommitCount returns a page or fails.
ListCommitsReturn(k) ==
  /\ apc = "Promise.all"
  /\ counters[k].status = "listCommits"
  /\ \/ \E data \in Pages :
          counters' = [counters EXCEPT ![k] = getRepoCommitCountTurn(@, data)]
     \/ counters' = [counters EXCEPT ![k].status = "threw"]
  /\ UNCHANGED <<unitVars, schedulerVars, aCallbackThrows, aCompany, apc, aOrgName, aRepos, aRepoResults,
                 aMostActive, tally, outcome, progressCalls, aCalls>>

\* Mutant of RepoResult: the catch gives the commits counted before the
\* failure instead of 0.
RepoResult_CountedSoFar(k) ==
  RepoCommitData(aRepos[k],
    IF counters[k].status = "returned" THEN counters[k].returned
    ELSE counters[k].count)

\* Mutant of ContributorRepo: the first repository of the list.
ContributorRepo_First(mostActive, repoResults) == repoResults[1].repoName

\* The `repo` argument of getTopContributor: mostActive.repoName.
ContributorRepo(mostActive, repoResults) == mostActive.repoName

\* What the callback of repos.map gives for the k-th repository: the count,
\* or 0 from the catch.
RepoResult(k) ==
  RepoCommitData(aRepos[k],
    IF counters[k].status = "returned" THEN counters[k].returned ELSE 0)

\* Mutant of Select: the callback of repos.map has no try/catch, so one
\* failed count rejects Promise.all and with it analyzeCompany.
Select_NoCatch ==
  /\ apc = "Promise.all"
  /\ \A k \in 1..Len(counters) : counters[k].status \in {"returned", "threw"}
  /\ IF \E k \in 1..Len(counters) : counters[k].status = "threw"
       THEN /\ Throw(RemoteError)
            /\ aCalls' = Append(aCalls, CallSettled("Promise.all", FALSE, 0))
            /\ UNCHANGED <<aRepoResults, aMostActive, tally, progressCalls>>
       ELSE LET rr   == [k \in 1..Len(aRepos) |-> RepoResult(k)]
                ma   == MostActive(rr)
                done == Append(aCalls, CallSettled("Promise.all", TRUE, 0))
            IN  /\ aRepoResults' = rr
                /\ aMostActive' = Some(ma)
                /\ IF ma.commitCount = 0
                     THEN /\ Return(NoActivityResult(aCompany))
                          /\ aCalls' = done
                          /\ UNCHANGED <<tally, progressCalls>>
                     ELSE /\ progressCalls' = Append(progressCalls, "Most active")
                          /\ tally' = Some(NewTally)
                          /\ aCalls' = Append(done,
                               CallIssued("getTopContributor",
                                          ContributorRepo(ma, rr)))
                          /\ apc' = "getTopContributor"
                          /\ UNCHANGED outcome
  /\ UNCHANGED <<unitVars, schedulerVars, aCallbackThrows, aCompany, aOrgName, aRepos, counters>>

\* Mutant of AllSettledCounts: the first settled count is enough.
AllSettledCounts_FirstOnly ==
  \E k \in 1..Len(counters) : counters[k].status \in {"returned", "threw"}

\* `await Promise.all(..)` over callbacks that catch: it resolves when every
\* getRepoCommitCount has returned or thrown.
AllSettledCounts ==
  \A k \in 1..Len(counters) : counters[k].status \in {"returned", "threw"}

\* Promise.all resolves; analyzeCompany selects the winner and either
\* returns or calls getTopContributor.
Select ==
  /\ apc = "Promise.all"
  /\ AllSettledCounts
  /\ LET rr   == [k \in 1..Len(aRepos) |-> RepoResult(k)]
         ma   == MostActive(rr)
         done == Append(aCalls, CallSettled("Promise.all", TRUE, 0))
     IN  /\ aRepoResults' = rr
         /\ aMostActive' = Some(ma)
         /\ IF ma.commitCount = 0
              THEN /\ Return(NoActivityResult(aCompany))
                   /\ aCalls' = done
                   /\ UNCHANGED <<tally, progressCalls>>
              ELSE /\ progressCalls' = Append(progressCalls, "Most active")
                   /\ \/ /\ tally' = Some(NewTally)
                         /\ aCalls' = Append(done,
                              CallIssued("getTopContributor",
                                         ContributorRepo(ma, rr)))
                         /\ apc' = "getTopContributor"
                         /\ UNCHANGED outcome
                      \/ /\ aCallbackThrows
                         /\ Throw(CallbackError)
                         /\ aCalls' = done
                         /\ UNCHANGED tally
  /\ UNCHANGED <<unitVars, schedulerVars, aCallbackThrows, aCompany, aOrgName, aRepos, counters>>

\* The listCommits of getTopContributor returns a page or fails.
TopContributorPage ==
  /\ apc = "getTopContributor"
  /\ \/ \E data \in Pages :
          LET t == getTopContributorTurn(tally[1], data)
          IN  /\ tally' = Some(t)
              /\ IF t.status = "returned"
                   THEN /\ Return(PopulatedResult(aCompany, aMostActive[1],
                                                  t.returned))
                        /\ aCalls' = Append(aCalls,
                             CallSettled("getTopContributor", TRUE, 0))
                   ELSE UNCHANGED <<apc, outcome, aCalls>>
     \/ /\ tally' = Some([tally[1] EXCEPT !.status = "threw"])
        /\ Throw(RemoteError)
        /\ aCalls' = Append(aCalls, CallSettled("getTopContributor", FALSE, 0))
  /\ UNCHANGED <<unitVars, schedulerVars, aCallbackThrows, aCompany, aOrgName, aRepos, counters,
                 aRepoResults, aMostActive, progressCalls>>

\* No batch is running.
SchedulerIdle ==
  /\ companies = <<>>
  /\ pc = "idle"
  /\ i = 0
  /\ completed = 0
  /\ results = <<>>
  /\ j = 0
  /\ awaiting = 0
  /\ task = <<>>
  /\ emitted = <<>>
  /\ pending = <<>>
  /\ received = <<>>
  /\ connected = FALSE
  /\ settleOrder = <<>>

\* analyzeCompany is called.
Called ==
  /\ UnitsIdle
  /\ SchedulerIdle
  /\ \E url \in Urls : aCompany = CompanyInput("c1", url)
  /\ apc = "start"
  /\ aOrgName = Null
  /\ aRepos = <<>>
  /\ counters = <<>>
  /\ aRepoResults = <<>>
  /\ aMostActive = Absent
  /\ tally = Absent
  /\ outcome = Absent
  /\ progressCalls = <<>>
  /\ aCalls = <<>>

\* analyzeCompany as processCompanies calls it: its onProgress starts an
\* async sendEvent and never throws.
InitAnalyze ==
  /\ Called
  /\ aCallbackThrows = FALSE

NextAnalyze ==
  \/ AnalyzeStart
  \/ ListForOrgReturn
  \/ ListForUserReturn
  \/ \E k \in 1..Len(counters) : ListCommitsReturn(k)
  \/ Select
  \/ TopContributorPage

SpecAnalyze == InitAnalyze /\ [][NextAnalyze]_vars

\* analyzeCompany called with any onProgress: one that returns, or one that
\* throws at some of its invocations.
InitAnyCallback ==
  /\ Called
  /\ aCallbackThrows \in BOOLEAN

SpecAnyCallback == InitAnyCallback /\ [][NextAnalyze]_vars

\* ------------------------------------------------------------------------
\* Properties of one analysis
\* ------------------------------------------------------------------------
\* C8: the repository selected has the highest count of the discovered
\* repositories and is the first, in discovery order, to have it; when that
\* count is positive the result returned names that repository, its URL and
\* its count.
C8_WinnerIsFirstOfHighest ==
  aMostActive # Absent =>
    /\ \E w \in 1..Len(aRepoResults) :
         /\ aRepoResults[w] = aMostActive[1]
         /\ \A k \in 1..Len(aRepoResults) :
              aRepoResults[k].commitCount <= aRepoResults[w].commitCount
         /\ \A k \in 1..(w - 1) :
              aRepoResults[k].commitCount < aRepoResults[w].commitCount
    /\ (apc = "returned" /\ aMostActive[1].commitCount > 0) =>
         /\ outcome[1].value[1].most_active_repo = aMostActive[1].repoName
         /\ outcome[1].value[1].most_active_repo_url = aMostActive[1].repoUrl
         /\ outcome[1].value[1].commit_count = aMostActive[1].commitCount

C8_Witness ==
  /\ apc = "returned"
  /\ Len(aRepoResults) >= 2
  /\ aRepoResults[1].commitCount = 4
  /\ aRepoResults[2].commitCount = 4
  /\ outcome[1].value[1].most_active_repo = "x"
  /\ outcome[1].value[1].commit_count = 4

\* The sum of the first n entries of a sequence of numbers.
RECURSIVE SumTo(_, _)
SumTo(f, n) == IF n = 0 THEN 0 ELSE f[n] + SumTo(f, n - 1)

\* C9: a call of getRepoCommitCount requests a further page only after full
\* pages whose total is below MAX_COMMITS, hence at most 5 pages; it returns
\* min(sum of the pages fetched, MAX_COMMITS), a value in 0..MAX_COMMITS.
C9_CountIsCappedSum ==
  \A k \in 1..Len(counters) :
    LET f == counters[k].fetched
    IN  /\ Len(f) <= MAX_COMMITS \div PER_PAGE
        /\ \A m \in 1..Len(f) : f[m] \in 0..PER_PAGE
        /\ \A m \in 1..(Len(f) - 1) :
             f[m] = PER_PAGE /\ SumTo(f, m) < MAX_COMMITS
        /\ counters[k].status = "listCommits" =>
             \A m \in 1..Len(f) : f[m] = PER_PAGE /\ SumTo(f, m) < MAX_COMMITS
        /\ counters[k].status = "returned" =>
             /\ counters[k].returned = Min(SumTo(f, Len(f)), MAX_COMMITS)
             /\ counters[k].returned \in 0..MAX_COMMITS
             /\ f[Len(f)] < PER_PAGE \/ SumTo(f, Len(f)) >= MAX_COMMITS

C9_Witness ==
  \E k, m \in 1..Len(counters) :
    /\ counters[k].status = "returned"
    /\ counters[k].returned = MAX_COMMITS
    /\ Len(counters[k].fetched) = 5
    /\ counters[m].status = "returned"
    /\ Len(counters[m].fetched) = 3
    /\ counters[m].returned = 203

\* The sample read by a call of getTopContributor: the runs of its pages.
RECURSIVE Flatten(_)
Flatten(pages) ==
  IF pages = <<>> THEN <<>> ELSE Head(pages) \o Flatten(Tail(pages))

\* Number of commits of `author` in a sample.
RECURSIVE TallyOf(_, _)
TallyOf(runs, author) ==
  IF runs = <<>> THEN 0
  ELSE (IF AuthorKey(Head(runs).commit) = author THEN Head(runs).n ELSE 0)
       + TallyOf(Tail(runs), author)

\* Position of the first run of `author` in a sample.
FirstSeen(runs, author) ==
  CHOOSE k \in 1..Len(runs) :
    /\ AuthorKey(runs[k].commit) = author /\ runs[k].n > 0
    /\ \A m \in 1..(k - 1) : AuthorKey(runs[m].commit) # author

\* The author returned has the highest tally of the sample and, of the
\* authors with that tally, is the one seen first.
FirstOfHighest(runs, top) ==
  LET authors == {AuthorKey(runs[k].commit) : k \in 1..Len(runs)}
  IN  /\ top \in authors
      /\ \A a \in authors :
           /\ TallyOf(runs, a) <= TallyOf(runs, top)
           /\ (a # top /\ TallyOf(runs, a) = TallyOf(runs, top))
              => FirstSeen(runs, top) < FirstSeen(runs, a)

\* The sample is at most MAX_PAGES pages, all full but the last.
SampleBounded(pages) ==
  /\ Len(pages) \in 1..MAX_PAGES
  /\ \A m \in 1..(Len(pages) - 1) : PageLen(pages[m]) = PER_PAGE

\* C10 as stated: the sample of getTopContributor is at most MAX_PAGES pages,
\* all full but the last; the author returned has the highest tally of the
\* sample and, of the authors with that tally, is the one seen first; "N/A"
\* is returned exactly when the sample holds no commit.
C10_NAOnlyForEmptySample ==
  (tally # Absent /\ tally[1].status = "returned") =>
    LET runs == Flatten(tally[1].fetched)
    IN  /\ SampleBounded(tally[1].fetched)
        /\ tally[1].returned = N_A <=> runs = <<>>
        /\ runs # <<>> => FirstOfHighest(runs, tally[1].returned)

\* C10 amended: the sample of getTopContributor is at most MAX_PAGES pages,
\* all full but the last; an empty sample gives "N/A"; a sample with commits
\* gives the author key with the highest tally, the first seen of those tied,
\* and that key is "N/A" when the commits of that author carry no login and
\* the name "N/A".
C10_TopContributorFirstOfHighest ==
  (tally # Absent /\ tally[1].status = "returned") =>
    LET runs == Flatten(tally[1].fetched)
    IN  /\ SampleBounded(tally[1].fetched)
        /\ runs = <<>> => tally[1].returned = N_A
        /\ runs # <<>> => FirstOfHighest(runs, tally[1].returned)

C10_Witness ==
  /\ tally # Absent
  /\ tally[1].status = "returned"
  /\ Len(tally[1].fetched) = 2
  /\ TallyOf(Flatten(tally[1].fetched), "alice") = 52
  /\ TallyOf(Flatten(tally[1].fetched), "bob") = 52
  /\ tally[1].returned = "bob"

\* C11: a repository whose count call failed is counted as 0, every other
\* repository keeps the count its own call returned, the winner is selected
\* among all of them, the analysis does not throw because of the failed count
\* and the result it returns after the selection carries no error.
C11_FailedCountIsZero ==
  /\ aRepoResults # <<>> =>
       /\ Len(aRepoResults) = Len(aRepos)
       /\ \A k \in 1..Len(aRepos) :
            /\ aRepoResults[k].repoName = aRepos[k].name
            /\ counters[k].status \in {"returned", "threw"}
            /\ counters[k].status = "threw" => aRepoResults[k].commitCount = 0
            /\ counters[k].status = "returned" =>
                 aRepoResults[k].commitCount = counters[k].returned
       /\ aMostActive # Absent
       /\ \E w \in 1..Len(aRepoResults) : aRepoResults[w] = aMostActive[1]
       /\ \A k \in 1..Len(aRepoResults) :
            aRepoResults[k].commitCount <= aMostActive[1].commitCount
       /\ apc = "returned" => outcome[1].value[1].error = Absent
  /\ apc = "threw" =>
       \/ counters = <<>>
       \/ tally # Absent /\ tally[1].status = "threw"

C11_Witness ==
  /\ apc = "returned"
  /\ Len(counters) = 2
  /\ counters[1].status = "threw"
  /\ counters[1].fetched # <<>>
  /\ counters[2].status = "returned"
  /\ aRepoResults[1].commitCount = 0
  /\ aRepoResults[2].commitCount = 3
  /\ outcome[1].value[1].most_active_repo = "y"
  /\ outcome[1].value[1].commit_count = 3
  /\ outcome[1].value[1].error = Absent

\* The CompanyResults carried by the emitted events.
ResultsEmitted ==
  {emitted[k].result[1] : k \in {m \in 1..Len(emitted) : emitted[m].result # Absent}}

\* C12: every CompanyResult carried by an emitted event that has an `error`
\* holds "N/A" in most_active_repo, most_active_repo_url and top_contributor
\* and 0 in commit_count, whether the pipeline returned it or the scheduler
\* synthesized it.
C12_ErrorMeansSentinels ==
  \A r \in ResultsEmitted :
    r.error # Absent =>
      /\ r.most_active_repo = N_A
      /\ r.most_active_repo_url = N_A
      /\ r.top_contributor = N_A
      /\ r.commit_count = 0

C12_Witness ==
  /\ \E c \in 1..total : task[c].pc = "rejected"
  /\ \E r \in ResultsEmitted : r.error = Some("Invalid GitHub URL")
  /\ \E r \in ResultsEmitted : r.error = Some(RemoteError.message)

\* C13: an analysis that discovered at least one repository and found no
\* count above 0 returns a result with no error, "N/A" in most_active_repo,
\* most_active_repo_url and top_contributor and 0 in commit_count, without
\* calling getTopContributor; the event processCompanies builds for that
\* result has the type `result`.
C13_NoActivityIsAResult ==
  (/\ apc = "returned"
   /\ aRepoResults # <<>>
   /\ \A k \in 1..Len(aRepoResults) : aRepoResults[k].commitCount = 0) =>
    LET value == outcome[1].value[1]
    IN  /\ outcome[1].status = "fulfilled"
        /\ value.company_name = aCompany.company_name
        /\ value.github_org_url = aCompany.github_org_url
        /\ value.error = Absent
        /\ value.most_active_repo = N_A
        /\ value.most_active_repo_url = N_A
        /\ value.top_contributor = N_A
        /\ value.commit_count = 0
        /\ tally = Absent
        /\ FulfilledEvent(value, 1).type = "result"
        /\ FulfilledEvent(value, 1).result = Some(value)

C13_Witness ==
  /\ apc = "returned"
  /\ Len(aRepoResults) = 2
  /\ counters[1].status = "returned"
  /\ counters[1].fetched = <<0>>
  /\ counters[2].status = "threw"
  /\ aRepoResults[1].commitCount = 0
  /\ aRepoResults[2].commitCount = 0
  /\ outcome[1].value[1].most_active_repo = N_A

\* listOrgRepos was called and returned the empty list.
DiscoveredNothing ==
  apc = "returned" /\ aOrgName # Null /\ aRepos = <<>>

\* C14: an analysis whose discovery returned the empty list returns a result
\* with error = "No repos found" and commit_count = 0, and has issued no
\* listCommits call, neither of getRepoCommitCount nor of getTopContributor.
C14_NoReposNoCommitCalls ==
  DiscoveredNothing =>
    /\ outcome[1].status = "fulfilled"
    /\ outcome[1].value[1].error = Some("No repos found")
    /\ outcome[1].value[1].commit_count = 0
    /\ outcome[1].value[1].company_name = aCompany.company_name
    /\ counters = <<>>
    /\ tally = Absent
    /\ aRepoResults = <<>>
    /\ progressCalls = <<"Fetching repos">>

C14_Witness ==
  /\ DiscoveredNothing
  /\ outcome[1].value[1].error = Some("No repos found")
  /\ counters = <<>>

\* ------------------------------------------------------------------------
\* createOctokit (src/lib/github.ts): one remote call of the throttled client
\* ------------------------------------------------------------------------
\* The requests the client issues.
Endpoints == {"listForOrg", "listForUser", "listCommits"}

\* The retry-after values a rate-limit response can carry, in seconds.
RetryAfters == {1, 60}

\* What the two callbacks write to octokit.log.
LogEntry(level, text, detail) == [level |-> level, text |-> text, detail |-> detail]

\* Mutant of onRateLimit: `retryCount <= 2`.
onRateLimit_OneMore(retryAfter, options, retryCount) ==
  [log   |-> <<LogEntry("warn", "Rate limit hit", options)>>
               \o (IF retryCount <= 2
                     THEN <<LogEntry("info", "Retrying after", retryAfter)>>
                     ELSE <<>>),
   retry |-> retryCount <= 2]

\* throttle.onRateLimit: what it logs and whether it returns true.
onRateLimit(retryAfter, options, retryCount) ==
  [log   |-> <<LogEntry("warn", "Rate limit hit", options)>>
               \o (IF retryCount < 2
                     THEN <<LogEntry("info", "Retrying after", retryAfter)>>
                     ELSE <<>>),
   retry |-> retryCount < 2]

\* throttle.onSecondaryRateLimit: what it logs and whether it returns true.
onSecondaryRateLimit(retryAfter, options, retryCount) ==
  [log   |-> <<LogEntry("warn", "Secondary rate limit hit", options)>>
               \o (IF retryCount < 1
                     THEN <<LogEntry("info", "Retrying after", retryAfter)>>
                     ELSE <<>>),
   retry |-> retryCount < 1]

\* A call just submitted for the first time.
NewCall(endpoint) ==
  [options |-> endpoint, status |-> "submitted", retryCount |-> 0,
   submissions |-> 1, signals |-> <<>>, log |-> <<>>, error |-> ""]

\* The response is a success.
RequestSucceeds ==
  /\ call # <<>>
  /\ call[1].status = "submitted"
  /\ call' = <<[call[1] EXCEPT !.status = "succeeded"]>>
  /\ UNCHANGED <<schedulerVars, analysisVars, request, response, urlArg,
                 urlResult>>

\* The response is a failure that is no rate-limit signal: no callback is
\* called and the error goes to the caller.
RequestFails ==
  /\ call # <<>>
  /\ call[1].status = "submitted"
  /\ call' = <<[call[1] EXCEPT !.status = "failed", !.error = "other"]>>
  /\ UNCHANGED <<schedulerVars, analysisVars, request, response, urlArg,
                 urlResult>>

\* The response is a rate-limit signal: the callback of its kind is called
\* with the number of retries so far; the call is submitted again when the
\* callback returns true, and fails with the rate-limit error otherwise.
RateLimited ==
  /\ call # <<>>
  /\ call[1].status = "submitted"
  /\ \E signal \in {"primary", "secondary"}, retryAfter \in RetryAfters :
       LET c      == call[1]
           answer == IF signal = "primary"
                       THEN onRateLimit(retryAfter, c.options, c.retryCount)
                       ELSE onSecondaryRateLimit(retryAfter, c.options,
                                                 c.retryCount)
           seen   == Append(c.signals, [signal |-> signal,
                                        retried |-> answer.retry])
       IN  call' = <<IF answer.retry
                       THEN [c EXCEPT !.retryCount = c.retryCount + 1,
                                      !.submissions = c.submissions + 1,
                                      !.signals = seen,
                                      !.log = c.log \o answer.log]
                       ELSE [c EXCEPT !.status = "failed",
                                      !.error = signal,
                                      !.signals = seen,
                                      !.log = c.log \o answer.log]>>
  /\ UNCHANGED <<schedulerVars, analysisVars, request, response, urlArg,
                 urlResult>>

InitCall ==
  /\ SchedulerIdle
  /\ AnalysisIdle
  /\ \E endpoint \in Endpoints : call = <<NewCall(endpoint)>>
  /\ request = <<>>
  /\ response = <<>>
  /\ urlArg = <<>>
  /\ urlResult = <<>>

NextCall == RequestSucceeds \/ RequestFails \/ RateLimited

SpecCall == InitCall /\ [][NextCall]_vars

\* The retry limit of each kind of signal, as the claim states it.
RetriesAllowed(signal) == IF signal = "primary" THEN 2 ELSE 1

\* C15: a rate-limit signal is answered by a retry exactly when the retries
\* made before it are fewer than 2 (primary) or 1 (secondary); otherwise the
\* call fails with that error; a call is submitted at most 3 times, at most
\* twice when all its signals are secondary; and a failure that is no
\* rate-limit signal ends the call without a retry.
C15_BoundedRetries ==
  call # <<>> =>
    LET c       == call[1]
        retries == Cardinality({k \in 1..Len(c.signals) : c.signals[k].retried})
    IN  /\ \A k \in 1..Len(c.signals) :
             c.signals[k].retried <=>
               Cardinality({m \in 1..(k - 1) : c.signals[m].retried})
                 < RetriesAllowed(c.signals[k].signal)
        /\ \A k \in 1..(Len(c.signals) - 1) : c.signals[k].retried
        /\ c.submissions = 1 + retries
        /\ c.retryCount = retries
        /\ c.submissions <= 3
        /\ (\A k \in 1..Len(c.signals) : c.signals[k].signal = "secondary")
             => c.submissions <= 2
        /\ (c.signals # <<>> /\ ~c.signals[Len(c.signals)].retried) =>
             /\ c.status = "failed"
             /\ c.error = c.signals[Len(c.signals)].signal
        /\ c.error = "other" =>
             /\ c.status = "failed"
             /\ \A k \in 1..Len(c.signals) : c.signals[k].retried

C15_Witness ==
  /\ call # <<>>
  /\ call[1].status = "failed"
  /\ call[1].error = "primary"
  /\ Len(call[1].signals) = 3
  /\ \A k \in 1..3 : call[1].signals[k].signal = "primary"
  /\ call[1].submissions = 3

\* ------------------------------------------------------------------------
\* POST (src/app/api/analyze/route.ts): the checks before the batch
\* ------------------------------------------------------------------------
\* A JSON value: its JavaScript type and what the checks read of it (the
\* string, the number, the length of the array, the properties `token` and
\* `companies` of the object).
Json(type, value) == [type |-> type, value |-> value]

JsonNull == Json("null", <<>>)

\* The values a property of the body takes; Absent: the body has no such
\* property.
TokenValues ==
  {Absent, Some(JsonNull), Some(Json("string", "")), Some(Json("string", "ghp")),
   Some(Json("number", 0)), Some(Json("number", 42)), Some(Json("boolean", TRUE))}

CompaniesValues ==
  {Absent, Some(JsonNull), Some(Json("string", "c1")), Some(Json("number", 5)),
   Some(Json("object", [length |-> 0])), Some(Json("array", 0)),
   Some(Json("array", 1)), Some(Json("array", 2))}

\* The bodies request.json() parses.
JsonBodies ==
  {JsonNull, Json("number", 5), Json("string", "token"), Json("boolean", TRUE),
   Json("array", 0)}
  \cup {Json("object", [token |-> t, companies |-> c]) :
          t \in TokenValues, c \in CompaniesValues}

\* The request bodies: text that is no JSON, or the text of a JSON value.
Requests ==
  {[json |-> FALSE, body |-> JsonNull]}
  \cup {[json |-> TRUE, body |-> b] : b \in JsonBodies}

\* `const { companies, token } = body`: the value of a property, Absent for
\* undefined; destructuring null throws a TypeError (ok = FALSE).
Destructure(body) ==
  IF body.type = "null"
    THEN [ok |-> FALSE, token |-> Absent, companies |-> Absent]
  ELSE IF body.type = "object"
    THEN [ok |-> TRUE, token |-> body.value.token,
          companies |-> body.value.companies]
  ELSE [ok |-> TRUE, token |-> Absent, companies |-> Absent]

\* !v for a JSON value or undefined.
Falsy(v) ==
  \/ v = Absent
  \/ v[1].type = "null"
  \/ v[1].type = "string" /\ v[1].value = ""
  \/ v[1].type = "number" /\ v[1].value = 0
  \/ v[1].type = "boolean" /\ ~v[1].value

\* typeof v === "string"
IsString(v) == v # Absent /\ v[1].type = "string"

\* Array.isArray(v)
IsArray(v) == v # Absent /\ v[1].type = "array"

\* new Response(JSON.stringify({ error }), { status: 400 })
ClientError(error) ==
  [kind |-> "response", status |-> 400, error |-> Some(error),
   stream |-> FALSE, octokit |-> FALSE]

\* new Response(readable, ..) after processCompanies() was called.
EventStream ==
  [kind |-> "response", status |-> 200, error |-> Absent,
   stream |-> TRUE, octokit |-> TRUE]

\* POST rejects with the TypeError: it returns no Response.
Thrown ==
  [kind |-> "threw", status |-> 0, error |-> Absent,
   stream |-> FALSE, octokit |-> FALSE]

\* POST from its entry to its return.
Validate(req) ==
  IF ~req.json THEN ClientError("Invalid JSON")
  ELSE LET fields == Destructure(req.body)
       IN  IF ~fields.ok THEN Thrown
           ELSE IF Falsy(fields.token) \/ ~IsString(fields.token)
             THEN ClientError("GitHub token is required")
           ELSE IF ~IsArray(fields.companies) \/ fields.companies[1].value = 0
             THEN ClientError("Companies array is required")
           ELSE EventStream

\* POST handles the request.
Post ==
  /\ request # <<>>
  /\ response = <<>>
  /\ response' = <<Validate(request[1])>>
  /\ UNCHANGED <<schedulerVars, analysisVars, call, request, urlArg, urlResult>>

InitPost ==
  /\ SchedulerIdle
  /\ AnalysisIdle
  /\ call = <<>>
  /\ \E req \in Requests : request = <<req>>
  /\ response = <<>>
  /\ urlArg = <<>>
  /\ urlResult = <<>>

NextPost == Post

SpecPost == InitPost /\ [][NextPost]_vars

\* The requests the claim names: the body is no JSON, `token` is missing or
\* not a string, or `companies` is missing, not a list or empty.
PropertyOf(body, name) ==
  IF body.type # "object" THEN Absent
  ELSE IF name = "token" THEN body.value.token ELSE body.value.companies

MustBeRejected(req) ==
  \/ ~req.json
  \/ PropertyOf(req.body, "token") = Absent
  \/ PropertyOf(req.body, "token")[1].type # "string"
  \/ PropertyOf(req.body, "companies") = Absent
  \/ PropertyOf(req.body, "companies")[1].type # "array"
  \/ PropertyOf(req.body, "companies")[1].value = 0

\* C16: a request whose body is no JSON, whose token is missing or not a
\* string, or whose companies is missing, not a list or empty is answered
\* with a 4xx status and a body holding `error`, with no event stream opened
\* and no remote client created; only a request passing the checks gets the
\* event stream.
C16_InvalidRequestsRejected ==
  response # <<>> =>
    /\ MustBeRejected(request[1]) =>
         /\ response[1].kind = "response"
         /\ response[1].status \in 400..499
         /\ response[1].error # Absent
         /\ ~response[1].stream
         /\ ~response[1].octokit
    /\ response[1].stream => ~MustBeRejected(request[1])

\* ------------------------------------------------------------------------
\* Properties of delivery
\* ------------------------------------------------------------------------
\* The events of r can be matched, one after the other, with events of e at
\* positions that increase strictly from k on.
RECURSIVE EmbedsFrom(_, _, _)
EmbedsFrom(r, e, k) ==
  IF r = <<>> THEN TRUE
  ELSE IF \A p \in k..Len(e) : e[p] # Head(r) THEN FALSE
  ELSE LET first == CHOOSE p \in k..Len(e) :
                      /\ e[p] = Head(r)
                      /\ \A q \in k..(p - 1) : e[q] # Head(r)
       IN  EmbedsFrom(Tail(r), e, first + 1)

\* C17: the events the consumer has received are events the server emitted,
\* each delivered once and in the order of emission, progress events written
\* without an await included; after a disconnect nothing more is delivered.
C17_ReceivedIsSubsequence ==
  /\ Len(received) <= Len(emitted)
  /\ EmbedsFrom(received, emitted, 1)
  /\ \A k, m \in 1..Len(received) : k # m => received[k] # received[m]

C17_Witness ==
  /\ ~connected
  /\ pc = "closed"
  /\ Len(received) >= 4
  /\ Len(received) < Len(emitted)
  /\ \E k \in 1..Len(received) :
       /\ received[k].type = "progress"
       /\ received[k].message.kind = "Found repos"
  /\ \E k \in 1..Len(emitted) : emitted[k].type = "result"

\* ------------------------------------------------------------------------
\* extractOrgName (src/lib/github.ts) on its own
\* ------------------------------------------------------------------------
\* The strings handed to extractOrgName, put together from blanks, a scheme,
\* a host, a path and a tail.
Leads == {<<>>, <<" ">>}
Schemes == {<<>>, HTTPS_SCHEME, HTTP_SCHEME}
Hosts ==
  {<<>>, GITHUB_COM, <<"w", "w", "w", ".">> \o GITHUB_COM, <<"x", ".", "i", "o">>,
   <<"x">> \o GITHUB_COM, GITHUB_COM \o <<".", "x", ".", "i", "o">>,
   <<"h", "t", "t", "p">> \o GITHUB_COM}
Paths ==
  {<<>>, <<"/">>, <<"/", "a", "c">>, <<"/", "a", "c", "/", "r">>,
   <<"/", "/", "a", "c">>}
Tails == {<<>>, <<"/">>, <<" ">>, <<"/", "/", " ">>}

UrlInput(lead, scheme, host, path, tail) ==
  [text |-> lead \o scheme \o host \o path \o tail,
   scheme |-> scheme, host |-> host, path |-> path]

UrlInputs ==
  {UrlInput(l, s, h, p, t) :
     l \in Leads, s \in Schemes, h \in Hosts, p \in Paths, t \in Tails}

\* extractOrgName is called; its try/catch leaves no exception.
Extract ==
  /\ urlArg # <<>>
  /\ urlResult = <<>>
  /\ urlResult' = <<extractOrgName(urlArg[1].text)>>
  /\ UNCHANGED <<schedulerVars, analysisVars, call, request, response, urlArg>>

InitExtract ==
  /\ SchedulerIdle
  /\ AnalysisIdle
  /\ call = <<>>
  /\ request = <<>>
  /\ response = <<>>
  /\ \E input \in UrlInputs : urlArg = <<input>>
  /\ urlResult = <<>>

NextExtract == Extract

SpecExtract == InitExtract /\ [][NextExtract]_vars

\* The host is the hosting domain or one of its subdomains.
OnHostingDomain(host) ==
  \/ host = GITHUB_COM
  \/ /\ Len(host) > Len(GITHUB_COM) + 1
     /\ SubSeq(host, Len(host) - Len(GITHUB_COM), Len(host)) = <<".">> \o GITHUB_COM

\* The organization an input names: the first non-empty segment of its path.
OrgNamed(input) ==
  IF input.path \in {<<"/", "a", "c">>, <<"/", "a", "c", "/", "r">>,
                     <<"/", "/", "a", "c">>}
    THEN <<"a", "c">>
    ELSE Null

\* C18: extractOrgName returns the first non-empty path segment for an
\* organization URL on the hosting domain, with or without scheme, blanks
\* around it or slashes after it, and null for a URL that is not on the
\* hosting domain, has no path segment or cannot be parsed.
C18_OrgNameOrNull ==
  urlResult # <<>> =>
    LET input == urlArg[1]
    IN  IF OnHostingDomain(input.host)
          THEN urlResult[1] = OrgNamed(input)
          ELSE urlResult[1] = Null

\* ------------------------------------------------------------------------
\* Properties of the onProgress callback
\* ------------------------------------------------------------------------
\* C19: whatever onProgress does, one that throws included, the analysis
\* goes on as with one that does nothing: each call of onProgress is followed
\* by the remote call or the return that follows it in the code, and the
\* analysis never ends with the failure of the callback.
C19_CallbackHasNoEffect ==
  /\ outcome # Absent /\ outcome[1].status = "rejected" =>
       outcome[1].reason[1] # CallbackError
  /\ apc = "threw" =>
       \/ aRepos = <<>> /\ Len(progressCalls) = 1
       \/ tally # Absent /\ tally[1].status = "threw"

\* The callback of batch.map for company c is suspended on a write that has
\* not completed.
WaitsForWrite(c) ==
  task[c].pc = "sendEvent" /\ ~WriteSettled(task[c].ticket)

\* C20: no pipeline in flight waits for the write of one of its progress
\* events to complete before it issues its next remote call, and a write on
\* a cancelled stream leaves nothing pending.
C20_NeverBlocksOnDelivery ==
  /\ \A c \in 1..total : InFlight(c) => ~WaitsForWrite(c)
  /\ ~connected => pending = <<>>

\* The calls of the given name that the analysis has issued, in order.
IssuedCalls(name) ==
  SelectSeq(aCalls, LAMBDA c : c.kind = "call" /\ c.name = name)

\* The repository of that name has the highest count, a positive one, and
\* is the first with it in discovery order.
IsWinner(name) ==
  \E k \in 1..Len(aRepoResults) :
    /\ aRepoResults[k].repoName = name
    /\ aRepoResults[k].commitCount > 0
    /\ \A m \in 1..Len(aRepoResults) :
         /\ aRepoResults[m].commitCount <= aRepoResults[k].commitCount
         /\ m < k => aRepoResults[m].commitCount < aRepoResults[k].commitCount

\* C21: in one analysis getTopContributor is invoked at most once, and its
\* repository is the winning one (highest positive count, first of ties),
\* never a runner-up; contributor listings are fetched only inside that one
\* invocation; an analysis that returned a result with an error or with
\* commit_count = 0 (invalid URL, no repositories, winning count 0) has
\* invoked it not at all.
C21_ContributorOnlyForWinner ==
  LET issued == IssuedCalls("getTopContributor")
  IN  /\ Len(issued) <= 1
      /\ (tally # Absent) <=> (Len(issued) = 1)
      /\ Len(issued) = 1 => IsWinner(issued[1].arg)
      /\ (/\ apc = "returned"
          /\ \/ Truthy(outcome[1].value[1].error)
             \/ outcome[1].value[1].commit_count = 0)
         => issued = <<>>

C21_Witness ==
  /\ apc = "returned"
  /\ Len(aRepoResults) = 2
  /\ aRepoResults[1].commitCount > 0
  /\ aRepoResults[2].commitCount > aRepoResults[1].commitCount
  /\ IssuedCalls("getTopContributor") =
       <<CallIssued("getTopContributor", aRepoResults[2].repoName)>>
  /\ tally # Absent
  /\ Len(tally[1].fetched) > 0
  /\ outcome[1].value[1].most_active_repo = aRepoResults[2].repoName

\* The listing calls that failed, as positions of the call history.
FailedListings ==
  { n \in 1..Len(aCalls) :
      /\ aCalls[n].kind = "settled"
      /\ aCalls[n].name \in {"listForOrg", "listForUser"}
      /\ ~aCalls[n].ok }

\* C22: listOrgRepos calls listForOrg first and once; listForUser is called
\* (once, for the same name, right after the failure) exactly when listForOrg
\* failed with status 404, and the repositories it then yields hold no fork;
\* after any other failure of listForOrg and after any failure of
\* listForUser the analysis has thrown that very error and no further call
\* was issued.
C22_UserListingOnlyAfterNotFound ==
  LET org  == IssuedCalls("listForOrg")
      user == IssuedCalls("listForUser")
      orgNotFound == \E n \in 1..Len(aCalls) :
                       aCalls[n] = CallSettled("listForOrg", FALSE, NOT_FOUND)
  IN  /\ Len(org) <= 1
      /\ Len(user) <= 1
      /\ aCalls # <<>> => aCalls[1] = CallIssued("listForOrg", aOrgName)
      /\ (Len(user) = 1) <=> orgNotFound
      /\ orgNotFound =>
           /\ aCalls[2] = CallSettled("listForOrg", FALSE, NOT_FOUND)
           /\ aCalls[3] = CallIssued("listForUser", aOrgName)
           /\ \A k \in 1..Len(aRepos) : ~aRepos[k].fork
      /\ \A n \in FailedListings :
           \/ aCalls[n].name = "listForOrg" /\ aCalls[n].status = NOT_FOUND
           \/ /\ n = Len(aCalls)
              /\ apc = "threw"
              /\ outcome[1].reason = Some(RequestError(aCalls[n].status))

\* The user listing came back with a fork in front, which was filtered out.
C22_Witness ==
  /\ Len(aCalls) >= 4
  /\ aCalls[2] = CallSettled("listForOrg", FALSE, NOT_FOUND)
  /\ aCalls[4] = CallSettled("listForUser", TRUE, 0)
  /\ aRepos = <<RepoListItem("y", FALSE)>>
  /\ apc = "Promise.all"

\* extractOrgName gave null for the company's URL.
Unresolvable == OrgNameOf[aCompany.github_org_url] = Null

\* C23: the one step of an analysis whose URL gives no organization name goes
\* from the entry straight to the return of a result with error = "Invalid
\* GitHub URL", the sentinel "N/A" in the repository, URL and contributor
\* fields and commit_count 0; no call was issued, no commit listing was
\* started, and onProgress was not called.
C23_InvalidUrlReturnsAtOnce ==
  [][(apc = "start" /\ Unresolvable) =>
       /\ apc' = "returned"
       /\ outcome'[1].status = "fulfilled"
       /\ outcome'[1].value[1] =
            [company_name         |-> aCompany.company_name,
             github_org_url       |-> aCompany.github_org_url,
             most_active_repo     |-> N_A,
             most_active_repo_url |-> N_A,
             commit_count         |-> 0,
             top_contributor      |-> N_A,
             error                |-> Some("Invalid GitHub URL")]
       /\ aCalls' = <<>>
       /\ counters' = <<>>
       /\ tally' = Absent
       /\ progressCalls' = <<>>]_vars

C23_Witness ==
  /\ apc = "returned"
  /\ Unresolvable
  /\ outcome[1].value[1].error = Some("Invalid GitHub URL")
  /\ progressCalls = <<>>
  /\ aCalls = <<>>

\* The positions of the call history that hold an issued call of that name.
IssuedAt(name) ==
  { n \in 1..Len(aCalls) : aCalls[n].kind = "call" /\ aCalls[n].name = name }

\* The positions at which repository discovery completed with a list.
DiscoveredAt ==
  { n \in 1..Len(aCalls) :
      /\ aCalls[n].kind = "settled"
      /\ aCalls[n].name \in {"listForOrg", "listForUser"}
      /\ aCalls[n].ok }

CountInFlight(k) == counters[k].status = "listCommits"

\* C24: within one analysis no getRepoCommitCount call exists while
\* discovery is still awaited, and each was issued after discovery
\* completed; getTopContributor is issued only right after Promise.all over
\* all the counts has settled, after every getRepoCommitCount call, and
\* while it exists no count is still in flight.
C24_DiscoveryThenCountsThenContributor ==
  /\ apc \in {"start", "listForOrg", "listForUser"} =>
       /\ counters = <<>>
       /\ tally = Absent
       /\ IssuedAt("getRepoCommitCount") = {}
       /\ IssuedAt("getTopContributor") = {}
  /\ \A n \in IssuedAt("getRepoCommitCount") :
       \E m \in DiscoveredAt : m < n
  /\ Len(counters) = Cardinality(IssuedAt("getRepoCommitCount"))
  /\ \A n \in IssuedAt("getTopContributor") :
       /\ n > 1
       /\ aCalls[n - 1] = CallSettled("Promise.all", TRUE, 0)
       /\ IssuedAt("getRepoCommitCount") # {}
       /\ \A m \in IssuedAt("getRepoCommitCount") : m < n
       /\ \A k \in 1..Len(counters) : ~CountInFlight(k)
  /\ tally # Absent =>
       /\ IssuedAt("getTopContributor") # {}
       /\ \A k \in 1..Len(counters) : ~CountInFlight(k)
  /\ (\E k \in 1..Len(counters) : CountInFlight(k)) =>
       /\ apc = "Promise.all"
       /\ tally = Absent

\* Two counts were issued and have settled, one of them by failing, before
\* the contributor listing that is now in flight.
C24_Witness ==
  /\ apc = "getTopContributor"
  /\ Len(counters) = 2
  /\ counters[1].status = "threw"
  /\ counters[2].status = "returned"
  /\ Len(counters[2].fetched) > 1
  /\ tally # Absent
  /\ tally[1].status = "listCommits"
  /\ Len(tally[1].fetched) > 0

\* Repositories were discovered and getRepoCommitCount threw for each.
EveryCountFailed ==
  /\ counters # <<>>
  /\ \A k \in 1..Len(counters) : counters[k].status = "threw"

\* C25: an analysis in which getRepoCommitCount failed for every discovered
\* repository, whatever was counted before the failures, still returns a
\* result: no error, "N/A" in most_active_repo, most_active_repo_url and
\* top_contributor, commit_count 0, no getTopContributor call; the event
\* processCompanies builds for it is a `result` event with the message of an
\* inactive company, so nothing in it tells the failures from inactivity.
C25_AllCountsFailedLooksInactive ==
  (apc \in {"returned", "threw", "getTopContributor"} /\ EveryCountFailed) =>
    /\ apc = "returned"
    /\ outcome[1].status = "fulfilled"
    /\ outcome[1].value[1] = CompanyResult(aCompany, N_A, N_A, 0, N_A, Absent)
    /\ IssuedCalls("getTopContributor") = <<>>
    /\ LET event == FulfilledEvent(outcome[1].value[1], 1)
       IN  /\ event.type = "result"
           /\ event.message =
                Message(aCompany.company_name, "result", <<N_A>>, 0)
           /\ event.result = Some(outcome[1].value[1])

\* Both counts failed, the first after a full page of commits had been
\* counted.
C25_Witness ==
  /\ apc = "returned"
  /\ Len(counters) = 2
  /\ EveryCountFailed
  /\ counters[1].count >= PER_PAGE
  /\ counters[2].fetched = <<>>
  /\ outcome[1].value[1].commit_count = 0
  /\ ~Truthy(outcome[1].value[1].error)

============================================================================
